---- MODULE Spec2Model ----
\* A model of cfbolz/micrograd: the scalar autograd engine of
\* micrograd/engine.py (eager, closures) and of mnist.py (graph built once,
\* data rewritten per example), and the training loop of mnist.py.
\*
\* Floating point numbers are modelled by exact rationals, which is what the
\* arithmetic of the code computes whenever no rounding happens.  exp and log
\* have no rational value and are left out of the operation catalogue.
EXTENDS Integers, Sequences, FiniteSets, TLC

VARIABLES
    impl,          \* which program runs: "engine" (engine.py), "mnist" (a graph of mnist.py), "train" (main of mnist.py), "grouper"
    heap,          \* the node objects, in order of allocation; a node is its index
    pc,            \* position of the running program
    loss,          \* the root node (make_main: loss; engine: the receiver of backward())
    params,        \* model.parameters(): the parameter leaves, in construction order
    topo,          \* make_main: topo = loss.topo(); engine: the local topo of backward()
    non_params,    \* make_main: non_params
    reverse_topo,  \* make_main: reverse_topo
    idx,           \* position of the backward sweep in its order
    nback,         \* number of backward() calls so far
    fromZero,      \* history: the running/last backward sweep started with every non-root grad 0
    db,            \* make_main: db, the training records read from the dataset
    run            \* main(args): its arguments and locals, and the history of the epoch

vars == <<impl, heap, pc, loss, params, topo, non_params, reverse_topo, idx, nback, fromZero, db, run>>

-----------------------------------------------------------------------------
\* Bounds of the model.

\* most nodes a graph of the graph specification holds
MaxNodes == 3
\* most backward() calls on one graph
MaxSweeps == 1
\* most topo() and BaseValue.backward() calls on one graph
MaxCalls == 2

-----------------------------------------------------------------------------
\* Exact rational arithmetic: [n |-> numerator, d |-> denominator > 0], in
\* lowest terms.

Abs(x) == IF x < 0 THEN -x ELSE x

RECURSIVE Gcd(_, _)
Gcd(a, b) == IF b = 0 THEN a ELSE Gcd(b, a % b)

Norm(n, d) ==
    LET s == IF d < 0 THEN -1 ELSE 1
        g == Gcd(Abs(n), Abs(d))
    IN  [n |-> (s * n) \div g, d |-> (s * d) \div g]

R(i) == [n |-> i, d |-> 1]
RAdd(x, y) ==
    LET g == Gcd(x.d, y.d)
    IN  Norm(x.n * (y.d \div g) + y.n * (x.d \div g), x.d * (y.d \div g))
RNeg(x) == [n |-> -x.n, d |-> x.d]
RSub(x, y) == RAdd(x, RNeg(y))
RMul(x, y) ==
    LET g1 == Gcd(Abs(x.n), y.d)
        g2 == Gcd(Abs(y.n), x.d)
    IN  Norm((x.n \div g1) * (y.n \div g2), (x.d \div g2) * (y.d \div g1))
RGt(x, y) ==
    LET g == Gcd(x.d, y.d)
    IN  x.n * (y.d \div g) > y.n * (x.d \div g)

\* math.pow(x, k) for an integral exponent k >= 0
RECURSIVE RPow(_, _)
RPow(x, k) == IF k = 0 THEN R(1) ELSE RMul(x, RPow(x, k - 1))

\* float(b) and the implicit bool -> number conversion of (x > 0) * y
BoolToFloat(b) == IF b THEN R(1) ELSE R(0)

\* the sum of a sequence of rationals, by halves
RECURSIVE RSumRange(_, _, _)
RSumRange(s, lo, hi) ==
    IF lo > hi THEN R(0)
    ELSE IF lo = hi THEN s[lo]
    ELSE RAdd(RSumRange(s, lo, (lo + hi) \div 2), RSumRange(s, ((lo + hi) \div 2) + 1, hi))
RSum(s) == RSumRange(s, 1, Len(s))

-----------------------------------------------------------------------------
\* Sequence helpers.

Reverse(s) == [i \in 1..Len(s) |-> s[Len(s) + 1 - i]]
Range(s) == {s[i] : i \in 1..Len(s)}
NoDup(s) == \A i, j \in 1..Len(s) : s[i] = s[j] => i = j
Pos(s, x) == CHOOSE i \in 1..Len(s) : s[i] = x

SelectNotIn(s, S) == SelectSeq(s, LAMBDA x : x \notin S)
SelectIn(s, S) == SelectSeq(s, LAMBDA x : x \in S)

\* s without the later copies of an element
RECURSIVE FirstOccurrences(_)
FirstOccurrences(s) ==
    IF s = <<>> THEN <<>>
    ELSE LET init == FirstOccurrences(SubSeq(s, 1, Len(s) - 1))
             x == s[Len(s)]
         IN  IF x \in Range(init) THEN init ELSE Append(init, x)

-----------------------------------------------------------------------------
\* mnist.py: the node classes.  A node object holds the fields of
\* BaseValue/Const/Value/UnaryValue/BinaryValue/PowValue; Const keeps its
\* _const_data in data (get_data returns it), prev0/prev1 = 0 mean "no operand".

Obj(cls, prev0, prev1, exponent, data) ==
    [cls |-> cls, prev0 |-> prev0, prev1 |-> prev1, exponent |-> exponent,
     data |-> data, grad |-> R(0), visited |-> FALSE]

\* Value(): data = 0.0, grad = 0
NewValue(h) == Append(h, Obj("Value", 0, 0, 0, R(0)))
\* Const(data)
NewConst(h, c) == Append(h, Obj("Const", 0, 0, 0, c))
\* the builders: each allocates its result, which is the last node of the heap
add(h, self, other) == Append(h, Obj("AddValue", self, other, 0, R(0)))
mul(h, self, other) == Append(h, Obj("MulValue", self, other, 0, R(0)))
pow(h, self, k) == Append(h, Obj("PowValue", self, 0, k, R(0)))
relu(h, self) == Append(h, Obj("ReluValue", self, 0, 0, R(0)))
NewMax(h, left, right) == Append(h, Obj("Max", left, right, 0, R(0)))
\* self.add(other.mul(Const(-1)))
sub(h, self, other) ==
    LET h1 == NewConst(h, R(-1))
        h2 == mul(h1, other, Len(h1))
    IN  add(h2, self, Len(h2))

get_data(h, n) == h[n].data

IsUnary(h, n) == h[n].cls \in {"PowValue", "ReluValue"}
IsBinary(h, n) == h[n].cls \in {"AddValue", "MulValue", "Max"}
\* the operand links of a node, left to right
Operands(h, n) ==
    IF IsBinary(h, n) THEN <<h[n].prev0, h[n].prev1>>
    ELSE IF IsUnary(h, n) THEN <<h[n].prev0>>
    ELSE <<>>

\* topo(): st = [heap, topo]; _build_topo marks the node, recurses into the
\* operands and appends the node; Const overrides _build_topo to do nothing.
RECURSIVE BuildTopo(_, _)
RECURSIVE BuildTopoRecurse(_, _)
BuildTopoRecurseRightFirst(st, n) ==
    IF IsBinary(st.heap, n)
    THEN BuildTopo(BuildTopo(st, st.heap[n].prev1), st.heap[n].prev0)
    ELSE IF IsUnary(st.heap, n) THEN BuildTopo(st, st.heap[n].prev0)
    ELSE st
BuildTopoRecurse(st, n) ==
    IF IsBinary(st.heap, n)
    THEN BuildTopo(BuildTopo(st, st.heap[n].prev0), st.heap[n].prev1)
    ELSE IF IsUnary(st.heap, n) THEN BuildTopo(st, st.heap[n].prev0)
    ELSE st
BuildTopoIgnoresVisited(st, n) ==
    IF st.heap[n].cls = "Const" THEN st
    ELSE LET s1 == [st EXCEPT !.heap[n].visited = TRUE]
             s2 == BuildTopoRecurse(s1, n)
         IN  [s2 EXCEPT !.topo = Append(@, n)]
BuildTopo(st, n) ==
    IF st.heap[n].cls = "Const" THEN st
    ELSE IF st.heap[n].visited THEN st
    ELSE LET s1 == [st EXCEPT !.heap[n].visited = TRUE]
             s2 == BuildTopoRecurse(s1, n)
         IN  [s2 EXCEPT !.topo = Append(@, n)]
Topo(h, n) == BuildTopo([heap |-> h, topo |-> <<>>], n)

\* _forward of each class: the heap with the node's data recomputed
AddForward(h, n) ==
    [h EXCEPT ![n].data = RAdd(get_data(h, h[n].prev0), get_data(h, h[n].prev1))]
MulForward(h, n) ==
    [h EXCEPT ![n].data = RMul(get_data(h, h[n].prev0), get_data(h, h[n].prev1))]
PowForward(h, n) ==
    [h EXCEPT ![n].data = RPow(get_data(h, h[n].prev0), h[n].exponent)]
ReluForward(h, n) ==
    [h EXCEPT ![n].data = RMul(BoolToFloat(RGt(get_data(h, h[n].prev0), R(0))),
                               get_data(h, h[n].prev0))]
MaxForward(h, n) ==
    LET leftdata == get_data(h, h[n].prev0)
        rightdata == get_data(h, h[n].prev1)
        left_bigger == BoolToFloat(RGt(leftdata, rightdata))
    IN  [h EXCEPT ![n].data = RAdd(RMul(left_bigger, leftdata),
                                   RMul(RSub(R(1), left_bigger), rightdata))]
NodeForward(h, n) ==
    CASE h[n].cls = "AddValue" -> AddForward(h, n)
      [] h[n].cls = "MulValue" -> MulForward(h, n)
      [] h[n].cls = "PowValue" -> PowForward(h, n)
      [] h[n].cls = "ReluValue" -> ReluForward(h, n)
      [] h[n].cls = "Max" -> MaxForward(h, n)
      [] OTHER -> h

\* _backward of each class: the two += run one after the other
AddBackwardOverwrite(h, out) ==
    LET h1 == [h EXCEPT ![h[out].prev0].grad = h[out].grad]
    IN  [h1 EXCEPT ![h[out].prev1].grad = h1[out].grad]
AddBackward(h, out) ==
    LET h1 == [h EXCEPT ![h[out].prev0].grad = RAdd(@, h[out].grad)]
    IN  [h1 EXCEPT ![h[out].prev1].grad = RAdd(@, h1[out].grad)]
MulBackward(h, out) ==
    LET self == h[out].prev0
        other == h[out].prev1
        h1 == [h EXCEPT ![self].grad = RAdd(@, RMul(get_data(h, other), h[out].grad))]
    IN  [h1 EXCEPT ![other].grad = RAdd(@, RMul(get_data(h1, self), h1[out].grad))]
PowBackward(h, out) ==
    LET self == h[out].prev0
    IN  [h EXCEPT ![self].grad =
            RAdd(@, RMul(RMul(R(h[out].exponent),
                              RPow(get_data(h, self), h[out].exponent - 1)),
                         h[out].grad))]
ReluBackward(h, out) ==
    [h EXCEPT ![h[out].prev0].grad =
        RAdd(@, RMul(BoolToFloat(RGt(get_data(h, out), R(0))), h[out].grad))]
MaxBackwardTieLeft(h, n) ==
    LET left == h[n].prev0
        right == h[n].prev1
        left_bigger == BoolToFloat(~RGt(get_data(h, right), get_data(h, left)))
        h1 == [h EXCEPT ![left].grad = RAdd(@, RMul(left_bigger, h[n].grad))]
    IN  [h1 EXCEPT ![right].grad = RAdd(@, RMul(RSub(R(1), left_bigger), h1[n].grad))]
MaxBackward(h, n) ==
    LET left == h[n].prev0
        right == h[n].prev1
        left_bigger == BoolToFloat(RGt(get_data(h, left), get_data(h, right)))
        h1 == [h EXCEPT ![left].grad = RAdd(@, RMul(left_bigger, h[n].grad))]
    IN  [h1 EXCEPT ![right].grad = RAdd(@, RMul(RSub(R(1), left_bigger), h1[n].grad))]
NodeBackward(h, n) ==
    CASE h[n].cls = "AddValue" -> AddBackward(h, n)
      [] h[n].cls = "MulValue" -> MulBackward(h, n)
      [] h[n].cls = "PowValue" -> PowBackward(h, n)
      [] h[n].cls = "ReluValue" -> ReluBackward(h, n)
      [] h[n].cls = "Max" -> MaxBackward(h, n)
      [] OTHER -> h

\* The loops over a list of nodes.  The loop over order is the loop over its
\* first half followed, from the heap that leaves, by the loop over its second
\* half; The({f(l) : l \in {e}}) is f(e) with e computed first, which keeps the
\* evaluation of a long loop shallow.
The(S) == CHOOSE r \in S : TRUE
FirstHalf(s) == SubSeq(s, 1, Len(s) \div 2)
SecondHalf(s) == SubSeq(s, (Len(s) \div 2) + 1, Len(s))

\* for node in order: node._forward()
RECURSIVE ForwardSweep(_, _)
RECURSIVE ForwardSweepBackToFront(_, _)
ForwardSweepBackToFront(h, order) ==
    IF Len(order) = 0 THEN h
    ELSE IF Len(order) = 1 THEN NodeForward(h, order[1])
    ELSE The({ForwardSweepBackToFront(l, FirstHalf(order)) :
                 l \in {ForwardSweepBackToFront(h, SecondHalf(order))}})
ForwardSweep(h, order) ==
    IF Len(order) = 0 THEN h
    ELSE IF Len(order) = 1 THEN NodeForward(h, order[1])
    ELSE The({ForwardSweep(l, SecondHalf(order)) :
                 l \in {ForwardSweep(h, FirstHalf(order))}})

\* for node in order: node._backward()
RECURSIVE BackwardSweep(_, _)
BackwardSweep(h, order) ==
    IF Len(order) = 0 THEN h
    ELSE IF Len(order) = 1 THEN NodeBackward(h, order[1])
    ELSE The({BackwardSweep(l, SecondHalf(order)) :
                 l \in {BackwardSweep(h, FirstHalf(order))}})

\* for node in order: node.grad = 0.
ZeroGrads(h, order) ==
    [n \in DOMAIN h |-> IF n \in Range(order) THEN [h[n] EXCEPT !.grad = R(0)] ELSE h[n]]

-----------------------------------------------------------------------------
\* micrograd/engine.py: class Value and class Max.  A node keeps its _op in
\* cls ("" for a leaf), its _prev in prev0/prev1, and its _backward closure is
\* the rule of its _op.

\* Value.__init__(data, _children, _op)
EngineValue(h, data, prev0, prev1, op) ==
    Append(h, [cls |-> op, prev0 |-> prev0, prev1 |-> prev1, exponent |-> 0,
               data |-> data, grad |-> R(0), visited |-> FALSE])

\* other = other if isinstance(other, Value) else Value(other): an operand is
\* [isValue |-> TRUE, ref |-> node] or [isValue |-> FALSE, num |-> number]
EngineWrap(h, other) == IF other.isValue THEN h ELSE EngineValue(h, other.num, 0, 0, "")
EngineRef(h, other) == IF other.isValue THEN other.ref ELSE Len(h) + 1

Engine__add__(h, self, other) ==
    LET h1 == EngineWrap(h, other)
        o == EngineRef(h, other)
    IN  EngineValue(h1, RAdd(h1[self].data, h1[o].data), self, o, "+")
Engine__mul__(h, self, other) ==
    LET h1 == EngineWrap(h, other)
        o == EngineRef(h, other)
    IN  EngineValue(h1, RMul(h1[self].data, h1[o].data), self, o, "*")
\* Max.__init__: max(left.data, right.data) is the first of the largest
EngineMax(h, left, right) ==
    EngineValue(h, IF RGt(h[right].data, h[left].data) THEN h[right].data ELSE h[left].data,
                left, right, "max")

\* the _backward closures
EngineAddBackward(h, out) ==
    LET h1 == [h EXCEPT ![h[out].prev0].grad = RAdd(@, h[out].grad)]
    IN  [h1 EXCEPT ![h[out].prev1].grad = RAdd(@, h1[out].grad)]
EngineMulBackward(h, out) ==
    LET self == h[out].prev0
        other == h[out].prev1
        h1 == [h EXCEPT ![self].grad = RAdd(@, RMul(h[other].data, h[out].grad))]
    IN  [h1 EXCEPT ![other].grad = RAdd(@, RMul(h1[self].data, h1[out].grad))]
EngineMaxBackward(h, self) ==
    LET left == h[self].prev0
        right == h[self].prev1
    IN  IF RGt(h[left].data, h[right].data)
        THEN [h EXCEPT ![left].grad = RAdd(@, h[self].grad)]
        ELSE [h EXCEPT ![right].grad = RAdd(@, h[self].grad)]
EngineNodeBackward(h, v) ==
    CASE h[v].cls = "+" -> EngineAddBackward(h, v)
      [] h[v].cls = "*" -> EngineMulBackward(h, v)
      [] h[v].cls = "max" -> EngineMaxBackward(h, v)
      [] OTHER -> h

\* backward(): build_topo with its local visited set; st = [visited, topo]
RECURSIVE build_topo(_, _, _)
build_topo(h, st, v) ==
    IF v \in st.visited THEN st
    ELSE LET s1 == [st EXCEPT !.visited = @ \cup {v}]
             s2 == IF h[v].cls = "" THEN s1
                   ELSE build_topo(h, build_topo(h, s1, h[v].prev0), h[v].prev1)
         IN  [s2 EXCEPT !.topo = Append(@, v)]

-----------------------------------------------------------------------------
\* The graph specification: one of the two engines builds an arbitrary graph
\* of at most MaxNodes nodes and runs its passes over it.

\* the operand links of a node of either engine, left to right
Links(h, n) ==
    IF h[n].prev0 = 0 THEN <<>>
    ELSE IF h[n].prev1 = 0 THEN <<h[n].prev0>>
    ELSE <<h[n].prev0, h[n].prev1>>

RECURSIVE Reach(_, _)
Reach(h, n) == {n} \cup UNION {Reach(h, m) : m \in Range(Links(h, n))}

\* values a leaf is given (Value(data); Neuron.__init__; forward's writes)
LeafVals == {R(-1), R(2)}
\* values of Const(...) and of the numbers engine.py wraps
ConstVals == {R(-1)}
\* exponents of pow
Exponents == {2}

Nodes == 1..Len(heap)
\* the Value() leaves of mnist.py that are no parameters: inp_, expected_onehot
InputLeaves == {n \in Nodes : heap[n].cls = "Value" /\ n \notin Range(params)}

GraphInit ==
    /\ impl \in {"engine", "mnist"}
    /\ heap = <<>>
    /\ pc = "build"
    /\ loss = 0
    /\ params = <<>>
    /\ topo = <<>>
    /\ non_params = <<>>
    /\ reverse_topo = <<>>
    /\ idx = 0
    /\ nback = 0
    /\ fromZero = FALSE
    /\ db = <<>>
    /\ run = <<>>

Building(i) == impl = i /\ pc = "build" /\ Len(heap) < MaxNodes
BuildVars == <<impl, pc, loss, topo, non_params, reverse_topo, idx, nback, fromZero, db, run>>

\* mnist.py, Neuron.__init__: v = Value(); v.data = random.random(); w.append(v)
NeuronParam ==
    /\ Building("mnist")
    /\ \E v \in LeafVals :
          heap' = [NewValue(heap) EXCEPT ![Len(heap) + 1].data = v]
    /\ params' = Append(params, Len(heap) + 1)
    /\ UNCHANGED BuildVars
\* mnist.py, make_main: inp_ / expected_onehot = [Value() ...]
InputLeaf ==
    /\ Building("mnist")
    /\ heap' = NewValue(heap)
    /\ UNCHANGED <<params, BuildVars>>
ConstLeaf ==
    /\ Building("mnist")
    /\ \E c \in ConstVals : heap' = NewConst(heap, c)
    /\ UNCHANGED <<params, BuildVars>>
Add ==
    /\ Building("mnist")
    /\ \E i, j \in Nodes : heap' = add(heap, i, j)
    /\ UNCHANGED <<params, BuildVars>>
Mul ==
    /\ Building("mnist")
    /\ \E i, j \in Nodes : heap' = mul(heap, i, j)
    /\ UNCHANGED <<params, BuildVars>>
Pow ==
    /\ Building("mnist")
    /\ \E i \in Nodes, k \in Exponents : heap' = pow(heap, i, k)
    /\ UNCHANGED <<params, BuildVars>>
Relu ==
    /\ Building("mnist")
    /\ \E i \in Nodes : heap' = relu(heap, i)
    /\ UNCHANGED <<params, BuildVars>>
MaxOf ==
    /\ Building("mnist")
    /\ \E i, j \in Nodes : heap' = NewMax(heap, i, j)
    /\ UNCHANGED <<params, BuildVars>>

\* mnist.py, make_main lines 429-434: the loss is the node built last, and
\* every node built (parameters, example leaves, constants, operations) is part
\* of its expression
MakeMain ==
    /\ impl = "mnist" /\ pc = "build" /\ heap # <<>>
    /\ Reach(heap, Len(heap)) = Nodes
    /\ LET r == Len(heap)
           st == Topo(heap, r)
       IN  /\ heap' = st.heap
           /\ topo' = st.topo
           /\ loss' = r
           /\ non_params' = SelectNotIn(st.topo, Range(params))
           /\ reverse_topo' = Reverse(st.topo)
    /\ pc' = "main"
    /\ UNCHANGED <<impl, params, idx, nback, fromZero, db, run>>

\* forward(image): the example leaves are written, then the cached order is
\* swept front to back
Forward ==
    /\ impl = "mnist" /\ pc = "main"
    /\ \E image \in [InputLeaves -> LeafVals] :
          LET h1 == [n \in Nodes |->
                        IF n \in InputLeaves THEN [heap[n] EXCEPT !.data = image[n]]
                        ELSE heap[n]]
          IN  heap' = ForwardSweep(h1, topo)
    /\ UNCHANGED <<impl, pc, loss, params, topo, non_params, reverse_topo, idx, nback, fromZero, db, run>>

\* backward(), lines 461-463: the gradients of non_params are reset and the
\* root's is set to 1
BackwardReset ==
    /\ impl = "mnist" /\ pc = "main" /\ nback < MaxSweeps
    /\ heap' = [ZeroGrads(heap, non_params) EXCEPT ![loss].grad = R(1)]
    /\ fromZero' = \A n \in Nodes \ {loss} : heap'[n].grad = R(0)
    /\ nback' = nback + 1
    /\ idx' = 1
    /\ pc' = IF reverse_topo = <<>> THEN "main" ELSE "backward"
    /\ UNCHANGED <<impl, loss, params, topo, non_params, reverse_topo, db, run>>
\* backward(), lines 464-465: one iteration of the sweep
BackwardStep ==
    /\ impl = "mnist" /\ pc = "backward"
    /\ heap' = NodeBackward(heap, reverse_topo[idx])
    /\ idx' = idx + 1
    /\ pc' = IF idx = Len(reverse_topo) THEN "main" ELSE "backward"
    /\ UNCHANGED <<impl, loss, params, topo, non_params, reverse_topo, nback, fromZero, db, run>>
\* zero_grad()
ZeroGrad ==
    /\ impl = "mnist" /\ pc = "main"
    /\ heap' = ZeroGrads(heap, topo)
    /\ UNCHANGED <<impl, pc, loss, params, topo, non_params, reverse_topo, idx, nback, fromZero, db, run>>

\* engine.py: a leaf Value(data)
EngineLeaf ==
    /\ Building("engine")
    /\ \E v \in LeafVals : heap' = EngineValue(heap, v, 0, 0, "")
    /\ UNCHANGED <<params, BuildVars>>
\* the right operand of an engine.py operator: a node or a bare number
EngineOperands ==
    {[isValue |-> TRUE, ref |-> j, num |-> R(0)] : j \in Nodes}
        \cup {[isValue |-> FALSE, ref |-> 0, num |-> c] : c \in ConstVals}
EngineAdd ==
    /\ Building("engine")
    /\ \E i \in Nodes, other \in EngineOperands :
          /\ other.isValue \/ Len(heap) + 2 <= MaxNodes
          /\ heap' = Engine__add__(heap, i, other)
    /\ UNCHANGED <<params, BuildVars>>
EngineMul ==
    /\ Building("engine")
    /\ \E i \in Nodes, other \in EngineOperands :
          /\ other.isValue \/ Len(heap) + 2 <= MaxNodes
          /\ heap' = Engine__mul__(heap, i, other)
    /\ UNCHANGED <<params, BuildVars>>
EngineMaxOf ==
    /\ Building("engine")
    /\ \E i, j \in Nodes : heap' = EngineMax(heap, i, j)
    /\ UNCHANGED <<params, BuildVars>>
\* Value.backward(), lines 76-88: the order is built and the root's grad set
EngineBackward ==
    /\ impl = "engine" /\ pc = "build" /\ nback < MaxSweeps
    /\ \E r \in Nodes :
          LET st == build_topo(heap, [visited |-> {}, topo |-> <<>>], r)
          IN  /\ topo' = st.topo
              /\ reverse_topo' = Reverse(st.topo)
              /\ loss' = r
              /\ heap' = [heap EXCEPT ![r].grad = R(1)]
              /\ fromZero' = \A n \in Nodes \ {r} : heap[n].grad = R(0)
    /\ nback' = nback + 1
    /\ idx' = 1
    /\ pc' = "backward"
    /\ UNCHANGED <<impl, params, non_params, db, run>>
\* Value.backward(), lines 89-90: one iteration of the sweep
EngineBackwardStep ==
    /\ impl = "engine" /\ pc = "backward"
    /\ heap' = EngineNodeBackward(heap, reverse_topo[idx])
    /\ idx' = idx + 1
    /\ pc' = IF idx = Len(reverse_topo) THEN "build" ELSE "backward"
    /\ UNCHANGED <<impl, loss, params, topo, non_params, reverse_topo, nback, fromZero, db, run>>

GraphNext ==
    \/ NeuronParam \/ InputLeaf \/ ConstLeaf \/ Add \/ Mul \/ Pow \/ Relu \/ MaxOf
    \/ MakeMain \/ Forward \/ BackwardReset \/ BackwardStep \/ ZeroGrad
    \/ EngineLeaf \/ EngineAdd \/ EngineMul \/ EngineMaxOf
    \/ EngineBackward \/ EngineBackwardStep

Spec == GraphInit /\ [][GraphNext]_vars

-----------------------------------------------------------------------------
\* What the claims speak of, stated from the graph alone.

\* post-order of the expression tree of n: operands left to right, then n
RECURSIVE TreePostOrder(_, _)
TreePostOrder(h, n) ==
    LET l == Links(h, n)
    IN  (IF Len(l) >= 1 THEN TreePostOrder(h, l[1]) ELSE <<>>)
        \o (IF Len(l) = 2 THEN TreePostOrder(h, l[2]) ELSE <<>>)
        \o <<n>>
\* the post-order DFS sequence of the DAG: each node where the tree meets it first
DagPostOrder(h, n) == FirstOccurrences(TreePostOrder(h, n))
IsConst(h, n) == h[n].cls = "Const"
NonConst(h, s) == SelectSeq(s, LAMBDA n : ~IsConst(h, n))

MnistBuilt == impl = "mnist" /\ pc # "build"

\* C1 as claimed: topo() on a root (here: a root that is no Const itself)
\* returns the post-order DFS sequence of all nodes reachable from the root,
\* constants included, each exactly once, every node after its operands, the
\* root last.
C1_TopoHoldsEveryReachableNode ==
    (MnistBuilt /\ ~IsConst(heap, loss)) =>
        /\ topo = DagPostOrder(heap, loss)
        /\ Range(topo) = Reach(heap, loss)

\* C1 amended: topo() called once on the root returns the post-order DFS
\* sequence (operands left before right) of the reachable nodes that are no
\* Const: each of them exactly once and no Const at all, every node after each
\* of its non-Const operands, the root last; topo() of a Const root is empty.
C1_TopoIsPostOrderWithoutConst ==
    MnistBuilt =>
        /\ topo = NonConst(heap, DagPostOrder(heap, loss))
        /\ Range(topo) = {n \in Reach(heap, loss) : ~IsConst(heap, n)}
        /\ NoDup(topo)
        /\ \A i \in 1..Len(topo) : \A m \in Range(Links(heap, topo[i])) :
              ~IsConst(heap, m) => \E j \in 1..(i - 1) : topo[j] = m
        /\ IF IsConst(heap, loss) THEN topo = <<>> ELSE topo[Len(topo)] = loss
        /\ \A n \in Nodes : heap[n].visited <=> n \in Range(topo)

\* a DAG that is no tree, with a binary root whose distinct operands are
\* visited left before right
C1_Witness ==
    /\ MnistBuilt
    /\ Len(topo) = 3
    /\ IsBinary(heap, loss)
    /\ heap[loss].prev0 # heap[loss].prev1
    /\ \E n \in Nodes : n \in Range(Links(heap, heap[loss].prev1))
                        /\ n = heap[loss].prev0
    /\ Pos(topo, heap[loss].prev0) < Pos(topo, heap[loss].prev1)

\* The derivative of node c with respect to its operand in slot s (1 = left,
\* 2 = right), from the data the nodes hold: the table of the operations.
IsOp(h, c, mnistCls, engineOp) == h[c].cls \in {mnistCls, engineOp}
LocalDerivative(h, c, s) ==
    LET l == Links(h, c)
    IN  CASE IsOp(h, c, "AddValue", "+") -> R(1)
          [] IsOp(h, c, "MulValue", "*") -> h[l[3 - s]].data
          [] h[c].cls = "PowValue" ->
                RMul(R(h[c].exponent), RPow(h[l[1]].data, h[c].exponent - 1))
          [] h[c].cls = "ReluValue" -> IF RGt(h[c].data, R(0)) THEN R(1) ELSE R(0)
          [] IsOp(h, c, "Max", "max") ->
                IF RGt(h[l[1]].data, h[l[2]].data)
                THEN (IF s = 1 THEN R(1) ELSE R(0))
                ELSE (IF s = 1 THEN R(0) ELSE R(1))

\* The gradient of the root with respect to node n: 1 for the root itself,
\* otherwise the sum, over every use of n as an operand (every consumer c and
\* every slot of c that holds n), of the derivative of c in that slot times the
\* gradient of the root with respect to c.  Operands are older than their
\* consumer, so the consumers of n are among n+1..root, and the gradients are
\* tabulated from the root downwards (ns lists the nodes still to tabulate).
Consumers(h, root, n) ==
    SelectSeq([k \in 1..(root - n) |-> n + k], LAMBDA c : n \in Range(Links(h, c)))
UseTerms(h, n, c, g) ==
    LET l == Links(h, c)
    IN  [s \in 1..Len(l) |->
            IF l[s] = n THEN RMul(LocalDerivative(h, c, s), g[c]) ELSE R(0)]
UseSum(h, n, cs, g) == RSum([i \in 1..Len(cs) |-> RSum(UseTerms(h, n, cs[i], g))])
AdjointOf(h, root, n, g) ==
    IF n = root THEN R(1) ELSE UseSum(h, n, Consumers(h, root, n), g)
RECURSIVE AdjointTable(_, _, _, _)
AdjointTable(h, root, ns, g) ==
    IF Len(ns) = 0 THEN g
    ELSE IF Len(ns) = 1 THEN [g EXCEPT ![ns[1]] = AdjointOf(h, root, ns[1], g)]
    ELSE The({AdjointTable(h, root, SecondHalf(ns), l) :
                 l \in {AdjointTable(h, root, FirstHalf(ns), g)}})
Adjoints(h, root) ==
    AdjointTable(h, root, [k \in 1..root |-> root + 1 - k], [n \in 1..Len(h) |-> R(0)])
Adjoint(h, root, n) == Adjoints(h, root)[n]

\* the step that ends a backward sweep of either engine (the sweep over an
\* empty order ends at once)
SweepEnds ==
    \/ pc = "backward" /\ pc' # "backward"
    \/ pc = "main" /\ pc' = "main" /\ nback' = nback + 1

\* the uses of node n as an operand, as <<consumer, slot>> pairs
Uses(h, n) == {cs \in (1..Len(h)) \X {1, 2} :
                  cs[2] <= Len(Links(h, cs[1])) /\ Links(h, cs[1])[cs[2]] = n}

\* C2: when a backward sweep from the root starts with every other gradient
\* 0, it ends with every node's grad equal to the sum of the contributions of
\* all its uses (two consumers, or both operands of one node), in engine.py
\* and in the cached sweep of mnist.py alike.
C2_SharedOperandGetsSumOfUses ==
    [][(SweepEnds /\ fromZero) =>
          \A n \in 1..Len(heap') : heap'[n].grad = Adjoint(heap', loss', n)]_vars

\* after a sweep over an add/mul graph: a node used by two distinct consumers
\* whose contributions are both non-zero; its grad is the sum over its uses
\* and is neither contribution alone
C2_Witness ==
    /\ pc \in {"main", "build"} /\ nback >= 1 /\ fromZero
    /\ \A m \in Reach(heap, loss) :
          heap[m].cls \in {"AddValue", "MulValue", "Value", "Const", "+", "*", ""}
    /\ \E n \in Nodes : \E u, v \in Uses(heap, n) :
          /\ u # v
          /\ u[1] \in Reach(heap, loss) /\ v[1] \in Reach(heap, loss)
          /\ u[1] # v[1]
          /\ LET cu == RMul(LocalDerivative(heap, u[1], u[2]), heap[u[1]].grad)
                 cv == RMul(LocalDerivative(heap, v[1], v[2]), heap[v[1]].grad)
             IN  /\ cu # R(0) /\ cv # R(0)
                 /\ heap[n].grad = Adjoint(heap, loss, n)
                 /\ heap[n].grad # cu /\ heap[n].grad # cv

\* C7: a Max node's forward value is the left data when it is strictly the
\* bigger and the right data otherwise; each backward invocation adds the
\* node's whole gradient to exactly one operand, the left one iff its data is
\* strictly bigger, so that a tie goes to the right, and changes no other
\* gradient; in engine.py and in mnist.py alike.
MaxValue(h, m) ==
    IF RGt(h[h[m].prev0].data, h[h[m].prev1].data)
    THEN h[h[m].prev0].data ELSE h[h[m].prev1].data
MaxTarget(h, m) ==
    IF RGt(h[h[m].prev0].data, h[h[m].prev1].data) THEN h[m].prev0 ELSE h[m].prev1
C7_MaxRoutesWholeGradientTieToRight ==
    [][/\ (pc = "backward" /\ IsOp(heap, reverse_topo[idx], "Max", "max")) =>
             LET m == reverse_topo[idx]
             IN  \A n \in Nodes :
                    heap'[n].grad =
                        IF n = MaxTarget(heap, m)
                        THEN RAdd(heap[n].grad, heap[m].grad) ELSE heap[n].grad
       /\ Forward =>
             \A m \in Range(topo) : heap[m].cls = "Max" => heap'[m].data = MaxValue(heap', m)
       /\ EngineMaxOf => heap'[Len(heap')].data = MaxValue(heap', Len(heap'))
      ]_vars

\* the rule of a Max node over two distinct operands with equal, non-zero
\* data has just run: the right operand holds the whole gradient, the left none
C7_Witness ==
    /\ pc \in {"backward", "main", "build"} /\ nback >= 1 /\ idx >= 2 /\ fromZero
    /\ LET m == reverse_topo[idx - 1]
       IN  /\ IsOp(heap, m, "Max", "max")
           /\ heap[m].prev0 # heap[m].prev1
           /\ heap[heap[m].prev0].data = heap[heap[m].prev1].data
           /\ heap[m].data = heap[heap[m].prev1].data
           /\ heap[m].data # R(0)
           /\ heap[m].grad # R(0)
           /\ heap[heap[m].prev1].grad = heap[m].grad
           /\ heap[heap[m].prev0].grad = R(0)

\* the forward rule of a derived node, from the table of the operations
ForwardRule(h, n) ==
    LET a == h[h[n].prev0].data
        b == h[h[n].prev1].data
    IN  CASE h[n].cls = "AddValue" -> RAdd(a, b)
          [] h[n].cls = "MulValue" -> RMul(a, b)
          [] h[n].cls = "PowValue" -> RPow(a, h[n].exponent)
          [] h[n].cls = "ReluValue" -> IF RGt(a, R(0)) THEN a ELSE R(0)
          [] h[n].cls = "Max" -> IF RGt(a, b) THEN a ELSE b
Derived(h, n) == Links(h, n) # <<>>
Consistent(h, root) ==
    \A n \in Reach(h, root) : Derived(h, n) => h[n].data = ForwardRule(h, n)

\* C9: when forward(image) returns, every derived node of the graph holds its
\* operation's forward rule applied to the data its operands hold now.
C9_ForwardLeavesEveryDerivedNodeCurrent ==
    [][Forward => Consistent(heap', loss')]_vars

\* after a forward pass: a derived node over a derived operand, both with
\* non-zero data, in a graph with an example leaf
C9_Witness ==
    /\ MnistBuilt
    /\ Consistent(heap, loss)
    /\ InputLeaves \cap Reach(heap, loss) # {}
    /\ Derived(heap, loss) /\ heap[loss].data # R(0)
    /\ \E m \in Range(Links(heap, loss)) : Derived(heap, m) /\ heap[m].data # R(0)

-----------------------------------------------------------------------------
\* mnist.py: the model, the loss expression, grouper and shuffle.  Every
\* builder takes the heap and returns it with the nodes it allocated.

\* Body(e): the value e under a name.  A local of the code that is read more
\* than once is bound this way.
With(e, Body(_)) == Body(e)

\* Neuron(nin, nonlin): nin weights, each with a random.random() value from
\* ws, and a bias Value() of data 0.0
Neuron(h, ws, nonlin) ==
    [heap |-> NewValue(h \o [i \in 1..Len(ws) |->
                                [Obj("Value", 0, 0, 0, R(0)) EXCEPT !.data = ws[i]]]),
     w |-> [i \in 1..Len(ws) |-> Len(h) + i],
     b |-> Len(h) + Len(ws) + 1,
     nonlin |-> nonlin,
     parameters |-> [i \in 1..(Len(ws) + 1) |-> Len(h) + i]]

\* Neuron.evalneuron(x): result = self.b; result = result.add(self.w[i].mul(x[i]))
\* (the product is node Len(h) + 1, the sum node Len(h) + 2)
RECURSIVE evalneuronLoop(_, _, _, _, _)
evalneuronLoop(h, neuron, x, i, result) ==
    IF i > Len(x) THEN [heap |-> h, out |-> result]
    ELSE evalneuronLoop(add(mul(h, neuron.w[i], x[i]), result, Len(h) + 1),
                        neuron, x, i + 1, Len(h) + 2)
evalneuron(h, neuron, x) ==
    With(evalneuronLoop(h, neuron, x, 1, neuron.b),
         LAMBDA r : IF neuron.nonlin
                    THEN [heap |-> relu(r.heap, r.out), out |-> Len(r.heap) + 1]
                    ELSE r)

\* Layer(nin, nout, nonlin): wss[k] holds the weights of neuron k
RECURSIVE LayerNeurons(_, _, _, _, _)
LayerNeurons(h, wss, nonlin, k, neurons) ==
    IF k > Len(wss) THEN [heap |-> h, neurons |-> neurons]
    ELSE With(Neuron(h, wss[k], nonlin),
              LAMBDA n : LayerNeurons(n.heap, wss, nonlin, k + 1, Append(neurons, n)))
RECURSIVE Flatten(_)
Flatten(ss) == IF ss = <<>> THEN <<>> ELSE Head(ss) \o Flatten(Tail(ss))
Layer(h, wss, nonlin) ==
    With(LayerNeurons(h, wss, nonlin, 1, <<>>),
         LAMBDA r : [heap |-> r.heap, neurons |-> r.neurons,
                     parameters |-> Flatten([k \in 1..Len(r.neurons) |->
                                                r.neurons[k].parameters])])

\* Layer.evallayer(x): out = [n.evalneuron(x) for n in self.neurons]
RECURSIVE evallayerLoop(_, _, _, _, _)
evallayerLoop(h, layer, x, k, out) ==
    IF k > Len(layer.neurons) THEN [heap |-> h, out |-> out]
    ELSE With(evalneuron(h, layer.neurons[k], x),
              LAMBDA r : evallayerLoop(r.heap, layer, x, k + 1, Append(out, r.out)))
evallayer(h, layer, x) == evallayerLoop(h, layer, x, 1, <<>>)

\* MLP(nin, nouts): wsss[i] holds the weights of layer i; every layer but the
\* last is non-linear
RECURSIVE MLPLayers(_, _, _, _)
MLPLayers(h, wsss, i, layers) ==
    IF i > Len(wsss) THEN [heap |-> h, layers |-> layers]
    ELSE With(Layer(h, wsss[i], i # Len(wsss)),
              LAMBDA l : MLPLayers(l.heap, wsss, i + 1, Append(layers, l)))
MLP(h, wsss) ==
    With(MLPLayers(h, wsss, 1, <<>>),
         LAMBDA r : [heap |-> r.heap, layers |-> r.layers,
                     parameters |-> Flatten([i \in 1..Len(r.layers) |->
                                                r.layers[i].parameters])])

\* MLP.evalmlp(x)
RECURSIVE evalmlpLoop(_, _, _, _)
evalmlpLoop(h, model, x, i) ==
    IF i > Len(model.layers) THEN [heap |-> h, out |-> x]
    ELSE With(evallayer(h, model.layers[i], x),
              LAMBDA r : evalmlpLoop(r.heap, model, r.out, i + 1))
evalmlp(h, model, x) == evalmlpLoop(h, model, x, 1)

\* stable_softmax(output), lines 392-395: the fold of Max over the outputs and
\* the shifted outputs o.sub(max_) (sub allocates three nodes, the last is the
\* difference).  The exp, the sum and the division of lines 396-400 have no
\* rational value and are not modelled: the shifted outputs stand for the
\* softmax outputs.
RECURSIVE MaxFold(_, _, _, _)
MaxFold(h, output, i, max_) ==
    IF i > Len(output) THEN [heap |-> h, out |-> max_]
    ELSE MaxFold(NewMax(h, max_, output[i]), output, i + 1, Len(h) + 1)
RECURSIVE ShiftLoop(_, _, _, _, _)
ShiftLoop(h, output, max_, i, shiftx) ==
    IF i > Len(output) THEN [heap |-> h, out |-> shiftx]
    ELSE ShiftLoop(sub(h, output[i], max_), output, max_, i + 1,
                   Append(shiftx, Len(h) + 3))
stable_softmax(h, output) ==
    With(MaxFold(h, output, 2, output[1]),
         LAMBDA m : ShiftLoop(m.heap, output, m.out, 1, <<>>))

\* Const(0.0001)
Epsilon == Norm(1, 10000)

\* loss_of(model, inp_, expected_onehot); the .log() of line 422 is not
\* modelled.  An iteration allocates Const(0.0001), act.add(it), its product
\* with exp and the new result, in this order.
RECURSIVE loss_ofLoop(_, _, _, _, _)
loss_ofLoop(h, softmax_output, expected_onehot, i, result) ==
    IF i > Len(expected_onehot) THEN [heap |-> h, out |-> result]
    ELSE loss_ofLoop(add(mul(add(NewConst(h, Epsilon), softmax_output[i], Len(h) + 1),
                             Len(h) + 2, expected_onehot[i]),
                         result, Len(h) + 3),
                     softmax_output, expected_onehot, i + 1, Len(h) + 4)
loss_ofResult(r) == mul(NewConst(r.heap, R(-1)), r.out, Len(r.heap) + 1)
loss_ofSum(softmax_output, expected_onehot) ==
    loss_ofLoop(NewConst(softmax_output.heap, R(0)), softmax_output.out,
                expected_onehot, 1, Len(softmax_output.heap) + 1)
loss_ofSoftmax(output) == stable_softmax(output.heap, output.out)
loss_of(h, model, inp_, expected_onehot) ==
    loss_ofResult(loss_ofSum(loss_ofSoftmax(evalmlp(h, model, inp_)), expected_onehot))

\* the fill value None of grouper, and the test `im is not None`
None == 0

\* grouper(n, iterable, fillvalue): the loop, then the padding of the rest
RECURSIVE grouperLoop(_, _, _, _, _)
grouperLoop(n, iterable, i, allres, currlist) ==
    IF i > Len(iterable) THEN [allres |-> allres, currlist |-> currlist]
    ELSE LET c == Append(currlist, iterable[i])
         IN  IF Len(c) = n
             THEN grouperLoop(n, iterable, i + 1, Append(allres, c), <<>>)
             ELSE grouperLoop(n, iterable, i + 1, allres, c)
grouperPadsOnlyARest(n, iterable, fillvalue) ==
    LET r == grouperLoop(n, iterable, 1, <<>>, <<>>)
    IN  IF 0 < Len(r.currlist) /\ Len(r.currlist) < n
        THEN Append(r.allres,
                    r.currlist \o [k \in 1..(n - Len(r.currlist)) |-> fillvalue])
        ELSE r.allres
grouperPadsInFront(n, iterable, fillvalue) ==
    LET r == grouperLoop(n, iterable, 1, <<>>, <<>>)
    IN  IF Len(r.currlist) < n
        THEN Append(r.allres,
                    [k \in 1..(n - Len(r.currlist)) |-> fillvalue] \o r.currlist)
        ELSE r.allres
grouper(n, iterable, fillvalue) ==
    LET r == grouperLoop(n, iterable, 1, <<>>, <<>>)
    IN  IF Len(r.currlist) < n
        THEN Append(r.allres,
                    r.currlist \o [k \in 1..(n - Len(r.currlist)) |-> fillvalue])
        ELSE r.allres

\* randbelow(n) = int(n * random.random()), for the value r that
\* random.random() returns (0 <= r < 1): the product, truncated
randbelow(n, r) == (n * r.n) \div r.d
\* shuffle(x): for i in range(len(x)-1, 0, -1): x[i], x[j] = x[j], x[i], where
\* draws[i] is the value random.random() returns at index i (the list indices
\* of the code are one less than those of the sequence)
RECURSIVE shuffleLoop(_, _, _)
RECURSIVE shuffleLoopCopies(_, _, _)
shuffleLoopCopies(x, i, draws) ==
    IF i < 1 THEN x
    ELSE LET j == randbelow(i + 1, draws[i])
         IN  shuffleLoopCopies([x EXCEPT ![i + 1] = x[j + 1]], i - 1, draws)
shuffleLoop(x, i, draws) ==
    IF i < 1 THEN x
    ELSE LET j == randbelow(i + 1, draws[i])
         IN  shuffleLoop([x EXCEPT ![i + 1] = x[j + 1], ![j + 1] = x[i + 1]], i - 1, draws)
shuffle(x, draws) == shuffleLoop(x, Len(x) - 1, draws)

\* db[:] or db[:num_training_images]; a record is named by its index in db
Selected(num_training_images) ==
    IF num_training_images < 0 THEN [i \in 1..Len(db) |-> i]
    ELSE [i \in 1..(IF num_training_images < Len(db) THEN num_training_images
                    ELSE Len(db)) |-> i]
\* shuffle_and_group(batch_size, num_training_images)
shuffle_and_group(batch_size, num_training_images, draws) ==
    grouper(batch_size, shuffle(Selected(num_training_images), draws), None)


-----------------------------------------------------------------------------
\* mnist.py: make_main and main(args), scaled down.

\* records of the dataset
DbLen == 2
\* DIM, the number of pixels of an image (784 in the source)
Dim == 1
\* NUM_DIGITS, the number of labels (10 in the source)
NumDigits == 2

\* values of random.random() that are drawn
RandomVals == {R(0), Norm(1, 4), Norm(1, 2), Norm(9, 10)}
\* the values Neuron.__init__ draws for the weights, in order of the draws
WeightDraws ==
    {[k \in 1..(Dim * NumDigits) |-> R(0)],
     [k \in 1..(Dim * NumDigits) |-> IF k % 2 = 1 THEN Norm(1, 2) ELSE R(0)]}
\* the records of the dataset: image(label, pixels), a pixel is a byte
Images == {[label |-> 0, pixels |-> [i \in 1..Dim |-> 255]],
           [label |-> NumDigits - 1, pixels |-> [i \in 1..Dim |-> 51]]}
Datasets == {ds \in [1..DbLen -> Images] :
                \/ \A i \in 1..DbLen : ds[i].label = 0
                \/ \A i \in 1..DbLen : (ds[i].label = 0) <=> (i % 2 = 1)}
\* main(args): args[1], args[2], args[3]
EpochArgs == {1, 2}
BatchArgs == {0, 1, 2, 3}
LimitArgs == {-1, 0, 1}

\* [Value() for _ in range(k)]
RECURSIVE NewValues(_, _)
NewValues(h, k) == IF k = 0 THEN h ELSE NewValues(NewValue(h), k - 1)

\* make_main, lines 426-434.  The model is MLP(Dim, [NumDigits]): the hidden
\* layer of 50 neurons is left out, its products of weights make the
\* denominators of the rationals grow with every update.
make_mainClosure(model, inp_, expected_onehot, st) ==
    [heap |-> st.heap, inp_ |-> inp_, expected_onehot |-> expected_onehot,
     loss |-> Len(st.heap), topo |-> st.topo, params |-> model.parameters,
     non_params |-> SelectNotIn(st.topo, Range(model.parameters)),
     reverse_topo |-> Reverse(st.topo)]
make_mainLoss(model, inp_, expected_onehot) ==
    make_mainClosure(model, inp_, expected_onehot,
        With(loss_of(NewValues(model.heap, NumDigits), model, inp_, expected_onehot),
             LAMBDA h : Topo(h, Len(h))))
make_mainModel(model) ==
    make_mainLoss(model, [i \in 1..Dim |-> i],
                  [k \in 1..NumDigits |-> Len(model.heap) + k])
make_main(ws) ==
    make_mainModel(MLP(NewValues(<<>>, Dim),
                       <<[k \in 1..NumDigits |->
                            [i \in 1..Dim |-> ws[(k - 1) * Dim + i]]]>>))

\* forward(image): the writes of lines 449-454, then the sweep of lines 455-456
forward(h, image) ==
    LET h1 == [n \in DOMAIN h |->
                  IF n \in Range(run.expected_onehot)
                  THEN [h[n] EXCEPT !.data =
                           IF n = run.expected_onehot[image.label + 1] THEN R(1) ELSE R(0)]
                  ELSE IF n \in Range(run.inp_)
                  THEN [h[n] EXCEPT !.data = Norm(image.pixels[Pos(run.inp_, n)], 255)]
                  ELSE h[n]]
    IN  ForwardSweep(h1, topo)

\* backward(), lines 461-463
backwardResetKeepsAll(h) == [h EXCEPT ![loss].grad = R(1)]
backwardReset(h) == [ZeroGrads(h, non_params) EXCEPT ![loss].grad = R(1)]
\* backward(), lines 464-465
backwardSweep(h) == BackwardSweep(h, reverse_topo)

\* zero_grad()
zero_gradOfNonParams(h) == ZeroGrads(h, non_params)
zero_grad(h) == ZeroGrads(h, topo)

\* the learning rate of update_params
LearningRate == Norm(1, 10)
\* update_params(): for p in model.parameters(): p.data -= 0.1 * p.grad
update_paramsAdds(h) ==
    [n \in DOMAIN h |->
        IF n \in Range(params)
        THEN [h[n] EXCEPT !.data = RAdd(@, RMul(LearningRate, h[n].grad))]
        ELSE h[n]]
update_params(h) ==
    [n \in DOMAIN h |->
        IF n \in Range(params)
        THEN [h[n] EXCEPT !.data = RSub(@, RMul(LearningRate, h[n].grad))]
        ELSE h[n]]


\* division of a float by an int (epoch_loss /= len(db))
RDivInt(x, k) == Norm(x.n, x.d * k)

\* f + g on the domain of f
AddAt(f, g) == [q \in DOMAIN f |-> RAdd(f[q], g[q])]

TrainInit ==
    /\ impl = "train"
    /\ pc = "epoch"
    /\ idx = 0 /\ nback = 0 /\ fromZero = FALSE
    /\ db \in Datasets
    /\ \E m \in {make_main(ws) : ws \in WeightDraws}, num_epochs \in EpochArgs,
          batch_size \in BatchArgs, num_training_images \in LimitArgs :
              /\ heap = m.heap /\ loss = m.loss /\ topo = m.topo
              /\ params = m.params /\ non_params = m.non_params
              /\ reverse_topo = m.reverse_topo
              /\ run = [num_epochs |-> num_epochs, batch_size |-> batch_size,
                        num_training_images |-> num_training_images,
                        inp_ |-> m.inp_, expected_onehot |-> m.expected_onehot,
                        \* locals of main; batch_idx and im count from 1
                        epoch |-> 0, epoch_loss |-> R(0), batches |-> <<>>,
                        batch_idx |-> 0, im |-> 0, batch_loss |-> R(0),
                        \* history of the epoch: the values random.random()
                        \* returned to shuffle, the passes made, the updates
                        \* made, and per parameter the sum of the gradients of
                        \* the examples of the batch that were swept
                        draws |-> <<>>, passes |-> <<>>, nupdates |-> 0,
                        refGrad |-> [q \in Range(m.params) |-> R(0)]]

GraphVars == <<impl, loss, params, topo, non_params, reverse_topo, idx, nback, fromZero, db>>
Batch == run.batches[run.batch_idx]

\* lines 501-505: the head of the epoch loop and shuffle_and_group
ShuffleAndGroup ==
    /\ impl = "train" /\ pc = "epoch" /\ run.epoch < run.num_epochs
    /\ \E draws \in [1..(Len(Selected(run.num_training_images)) - 1) -> RandomVals] :
          run' = [run EXCEPT !.epoch_loss = R(0),
                             !.batches = shuffle_and_group(run.batch_size,
                                                           run.num_training_images, draws),
                             !.batch_idx = 0, !.draws = draws,
                             !.passes = <<>>, !.nupdates = 0]
    /\ pc' = "batch"
    /\ UNCHANGED <<heap, GraphVars>>
\* lines 506-509: the head of the batch loop, zero_grad()
BatchBegin ==
    /\ impl = "train" /\ pc = "batch" /\ run.batch_idx < Len(run.batches)
    /\ heap' = zero_grad(heap)
    /\ run' = [run EXCEPT !.batch_idx = @ + 1, !.batch_loss = R(0), !.im = 1,
                          !.refGrad = [q \in Range(params) |-> R(0)]]
    /\ pc' = "image"
    /\ UNCHANGED GraphVars
\* lines 510-512: a record of the batch, batch_loss += forward(im)
TrainForward ==
    /\ impl = "train" /\ pc = "image" /\ run.im <= Len(Batch)
    /\ Batch[run.im] # None
    /\ heap' = forward(heap, db[Batch[run.im]])
    /\ run' = [run EXCEPT !.batch_loss = RAdd(@, heap'[loss].data),
                          !.passes = Append(@, <<"forward", Batch[run.im]>>)]
    /\ pc' = "backward"
    /\ UNCHANGED GraphVars
\* line 513, backward(): the resets
TrainBackwardReset ==
    /\ impl = "train" /\ pc = "backward"
    /\ heap' = backwardReset(heap)
    /\ pc' = "sweep"
    /\ UNCHANGED <<run, GraphVars>>

\* line 513, backward(): the sweep over reverse_topo
TrainBackwardSweep ==
    /\ impl = "train" /\ pc = "sweep"
    /\ heap' = backwardSweep(heap)
    /\ run' = [run EXCEPT !.im = @ + 1,
                          !.passes = Append(@, <<"backward", Batch[run.im]>>),
                          !.refGrad = AddAt(@, Adjoints(heap, loss))]
    /\ pc' = "image"
    /\ UNCHANGED GraphVars
\* line 511: `if im is not None` fails
SkipPadding ==
    /\ impl = "train" /\ pc = "image" /\ run.im <= Len(Batch)
    /\ Batch[run.im] = None
    /\ run' = [run EXCEPT !.im = @ + 1]
    /\ UNCHANGED <<heap, pc, GraphVars>>
\* lines 514-516: the batch is through, update_params(), epoch_loss += batch_loss
UpdateParams ==
    /\ impl = "train" /\ pc = "image" /\ run.im > Len(Batch)
    /\ heap' = update_params(heap)
    /\ run' = [run EXCEPT !.epoch_loss = RAdd(@, run.batch_loss), !.nupdates = @ + 1]
    /\ pc' = "batch"
    /\ UNCHANGED GraphVars
\* lines 517-521: the batches are through, epoch_loss /= len(db)
EpochEnd ==
    /\ impl = "train" /\ pc = "batch" /\ run.batch_idx >= Len(run.batches)
    /\ run' = [run EXCEPT !.epoch_loss = RDivInt(@, Len(db)), !.epoch = @ + 1]
    /\ pc' = "epoch"
    /\ UNCHANGED <<heap, GraphVars>>
\* line 522: return 0
Return ==
    /\ impl = "train" /\ pc = "epoch" /\ run.epoch >= run.num_epochs
    /\ pc' = "done"
    /\ UNCHANGED <<heap, run, GraphVars>>

TrainNext ==
    \/ ShuffleAndGroup \/ BatchBegin \/ TrainForward \/ TrainBackwardReset
    \/ TrainBackwardSweep \/ SkipPadding \/ UpdateParams \/ EpochEnd \/ Return

TrainSpec == TrainInit /\ [][TrainNext]_vars

-----------------------------------------------------------------------------
\* grouper on its own: the inputs are drawn, the call is made.

\* longest input of grouper
MaxLen == 5
\* largest group size
MaxN == 3
Elems == {1, 2}
Iterables ==
    UNION {[1..k -> Elems] : k \in 0..MaxLen}
        \cup {[i \in 1..k |-> i] : k \in 0..(MaxLen + 2)}

GrouperInit ==
    /\ impl = "grouper"
    /\ pc = "call"
    /\ heap = <<>> /\ loss = 0 /\ params = <<>> /\ topo = <<>>
    /\ non_params = <<>> /\ reverse_topo = <<>>
    /\ idx = 0 /\ nback = 0 /\ fromZero = FALSE /\ db = <<>>
    /\ \E n \in 1..MaxN, iterable \in Iterables :
          run = [n |-> n, iterable |-> iterable, fillvalue |-> None, allres |-> <<>>]

GrouperCall ==
    /\ impl = "grouper" /\ pc = "call"
    /\ run' = [run EXCEPT !.allres = grouper(run.n, run.iterable, run.fillvalue)]
    /\ pc' = "done"
    /\ UNCHANGED <<heap, GraphVars>>

GrouperNext == GrouperCall

GrouperSpec == GrouperInit /\ [][GrouperNext]_vars


-----------------------------------------------------------------------------
\* The training loop: what the claims say of it.

\* the records the epoch trains on
Sel == Selected(run.num_training_images)
IsPadding(batch) == \A i \in 1..Len(batch) : batch[i] = None
Records(batch) == SelectSeq(batch, LAMBDA r : r # None)
\* the number of records in the first k batches of the epoch
RECURSIVE RecordsIn(_)
RecordsIn(k) == IF k = 0 THEN 0 ELSE RecordsIn(k - 1) + Len(Records(run.batches[k]))

\* C3 as stated: when a per-example backward sweep of the training loop
\* starts, the root's grad is 1 and the grad of every other node of the graph
\* (parameters, example leaves, constants, derived nodes) is 0.
C3_SweepStartsWithEveryOtherGradZero ==
    (impl = "train" /\ pc = "sweep") =>
        /\ heap[loss].grad = R(1)
        /\ \A n \in Nodes \ {loss} : heap[n].grad = R(0)

\* C3, amended: when a per-example backward sweep of the training loop starts,
\* the root's grad is 1, the grad of every other node of the cached order that
\* is no parameter is 0, and the grad of each parameter is the sum of the
\* gradients of the examples of the same batch swept before.
C3_SweepStartsWithNonParamsZero ==
    (impl = "train" /\ pc = "sweep") =>
        /\ heap[loss].grad = R(1)
        /\ \A n \in Range(non_params) \ {loss} : heap[n].grad = R(0)
        /\ \A q \in Range(params) : heap[q].grad = run.refGrad[q]

\* the second example of a batch is about to be swept, a parameter and a Const
\* hold a gradient left by the first
C3_Witness ==
    /\ impl = "train" /\ pc = "sweep" /\ run.im >= 2
    /\ \E q \in Range(params) : heap[q].grad # R(0)
    /\ \E n \in Nodes : heap[n].cls = "Const" /\ heap[n].grad # R(0)

\* C4: update_params runs once per batch, after the passes of all the records
\* of the batch, and sets each parameter's data to data - 0.1 * grad, where
\* grad is the sum of the gradients of the records of this batch alone.
C4_UpdateOncePerBatchWithBatchGradient ==
    [][/\ UpdateParams =>
            /\ run.nupdates = run.batch_idx - 1
            /\ Len(run.passes) = 2 * RecordsIn(run.batch_idx)
            /\ \A q \in Range(params) :
                  /\ heap[q].grad = run.refGrad[q]
                  /\ heap'[q].data = RSub(heap[q].data, RMul(Norm(1, 10), run.refGrad[q]))
       /\ BatchBegin => run.nupdates = run.batch_idx
       /\ EpochEnd => run.nupdates = Len(run.batches)]_vars

\* the second batch of an epoch has been applied, with a gradient that is not 0
C4_Witness ==
    /\ impl = "train" /\ pc = "batch" /\ run.batch_idx >= 2
    /\ run.nupdates = run.batch_idx
    /\ Len(Records(run.batches[1])) >= 1 /\ Len(Records(Batch)) >= 1
    /\ \E q \in Range(params) : heap[q].grad # R(0)

\* C5: a padding entry changes neither the graph nor batch_loss and makes no
\* pass; a batch of padding entries only reaches its update_params with
\* batch_loss 0 and no pass made, and the update leaves every parameter's data
\* as it was.
C5_PaddingMakesNoPassAndNoChange ==
    [][/\ SkipPadding =>
            /\ heap' = heap
            /\ run'.batch_loss = run.batch_loss
            /\ run'.passes = run.passes
       /\ (UpdateParams /\ IsPadding(Batch)) =>
            /\ run.batch_loss = R(0)
            /\ Len(run.passes) = 2 * RecordsIn(run.batch_idx - 1)
            /\ \A q \in Range(params) : heap'[q].data = heap[q].data]_vars

\* a batch of padding only has been applied after a batch that moved a
\* parameter
C5_Witness ==
    /\ impl = "train" /\ pc = "batch" /\ run.batch_idx >= 2
    /\ run.nupdates = run.batch_idx
    /\ IsPadding(Batch)
    /\ run.passes # <<>>
    /\ \E q \in Range(params) : heap[q].data \notin {R(0), Norm(1, 2)}


\* C6: for a group size n >= 1, every group grouper returns has n entries,
\* the entries that are not the fill value are the input in its order, and
\* the fill value stands only in a trailing run of the last group.
C6_GroupsOfNKeepOrderFillTrails ==
    (impl = "grouper" /\ pc = "done") =>
        LET allres == run.allres
        IN  /\ \A k \in 1..Len(allres) : Len(allres[k]) = run.n
            /\ SelectSeq(Flatten(allres), LAMBDA e : e # run.fillvalue) = run.iterable
            /\ \A k \in 1..Len(allres) : \A i \in 1..Len(allres[k]) :
                  allres[k][i] = run.fillvalue =>
                      /\ k = Len(allres)
                      /\ \A j \in i..Len(allres[k]) : allres[k][j] = run.fillvalue

\* seven elements in groups of three: two full groups and a padded third
C6_Witness ==
    /\ impl = "grouper" /\ pc = "done"
    /\ run.n = 3 /\ run.iterable = <<1, 2, 3, 4, 5, 6, 7>>
    /\ run.allres = <<<<1, 2, 3>>, <<4, 5, 6>>, <<7, None, None>>>>

IsPermutation(a, b) ==
    /\ Len(a) = Len(b)
    /\ \A x \in Range(a) \cup Range(b) :
          Cardinality({i \in 1..Len(a) : a[i] = x}) = Cardinality({i \in 1..Len(b) : b[i] = x})
\* the passes of the epoch are a forward then a backward of each selected
\* record, each record once
PassesCoverSelectedOnce ==
    LET ps == run.passes
        k == Len(Sel)
    IN  /\ Len(ps) = 2 * k
        /\ \A i \in 1..k :
              /\ ps[2 * i - 1][1] = "forward"
              /\ ps[2 * i][1] = "backward"
              /\ ps[2 * i - 1][2] = ps[2 * i][2]
        /\ {ps[2 * i][2] : i \in 1..k} = Range(Sel)
\* every draw of the shuffle is an index 0 <= j <= i and the shuffled list is
\* a permutation of the selected records
ShuffleKeepsSelected ==
    /\ \A i \in DOMAIN run'.draws : randbelow(i + 1, run'.draws[i]) \in 0..i
    /\ IsPermutation(shuffle(Sel, run'.draws), Sel)

\* C8 as stated: in every epoch every selected record gets one forward pass
\* followed by one backward pass; the shuffle leaves a permutation whatever
\* the draws, and the batches neither drop nor repeat a record.
C8_EverySelectedRecordOnePassPerEpoch ==
    [][/\ ShuffleAndGroup =>
            /\ ShuffleKeepsSelected
            /\ IsPermutation(Records(Flatten(run'.batches)), Sel)
       /\ EpochEnd => PassesCoverSelectedOnce]_vars

\* C8, amended: for a batch size of at least 1, in every epoch every selected
\* record gets one forward pass followed by one backward pass; the shuffle
\* leaves a permutation whatever the draws, and for a batch size of at least 1
\* the batches neither drop nor repeat a record.
C8_EverySelectedRecordOnePassPerEpochForPositiveBatch ==
    [][/\ ShuffleAndGroup =>
            /\ ShuffleKeepsSelected
            /\ run.batch_size >= 1 => IsPermutation(Records(Flatten(run'.batches)), Sel)
       /\ (EpochEnd /\ run.batch_size >= 1) => PassesCoverSelectedOnce]_vars

\* an epoch over two records ended that trained on the second record first
C8_Witness ==
    /\ impl = "train" /\ pc = "epoch" /\ run.epoch >= 1
    /\ run.batch_size >= 1
    /\ Len(run.passes) = 4
    /\ run.passes[1] = <<"forward", 2>> /\ run.passes[3] = <<"forward", 1>>

\* g - 1 is the floor of len / n
IsFloorPlusOne(g, len, n) == n * (g - 1) <= len /\ len < n * g
LastIsPaddingOnly(batches, n) ==
    /\ batches # <<>>
    /\ Len(batches[Len(batches)]) = n
    /\ IsPadding(batches[Len(batches)])

\* C10 as stated: for every input, grouper returns floor(len / n) + 1 groups,
\* and when len is a multiple of n the last group is n fill values, so that
\* the epoch runs one batch of padding only.
C10_GrouperAlwaysReturnsFloorPlusOneGroups ==
    [][/\ ShuffleAndGroup =>
            /\ IsFloorPlusOne(Len(run'.batches), Len(Sel), run.batch_size)
            /\ (\E m \in 0..Len(Sel) : m * run.batch_size = Len(Sel))
                  => LastIsPaddingOnly(run'.batches, run.batch_size)
       /\ EpochEnd => IsFloorPlusOne(run.nupdates, Len(Sel), run.batch_size)]_vars

\* C10, amended: for every input with n >= 1, grouper returns
\* floor(len / n) + 1 groups, and when len is a multiple of n the last group
\* is n fill values, so that the epoch runs one batch of padding only.
C10_GrouperReturnsFloorPlusOneGroupsForPositiveN ==
    [][/\ (ShuffleAndGroup /\ run.batch_size >= 1) =>
            /\ Len(run'.batches) = (Len(Sel) \div run.batch_size) + 1
            /\ Len(Sel) % run.batch_size = 0
                  => LastIsPaddingOnly(run'.batches, run.batch_size)
       /\ (EpochEnd /\ run.batch_size >= 1) =>
            run.nupdates = (Len(Sel) \div run.batch_size) + 1]_vars

\* the last batch of an epoch over a whole number of batches of records is
\* about to run, and holds padding only
C10_Witness ==
    /\ impl = "train" /\ pc = "image"
    /\ run.batch_size >= 1
    /\ Len(Sel) >= 1 /\ Len(Sel) % run.batch_size = 0
    /\ run.batch_idx = Len(run.batches) /\ run.batch_idx >= 2
    /\ IsPadding(Batch)


-----------------------------------------------------------------------------
\* BaseValue.topo() and BaseValue.backward() called by a client, any number of
\* times and on any node, on a graph that may grow between the calls.
\* run.calls counts the calls, run.taken holds the roots topo() has run on,
\* run.reached the nodes an earlier call returned, run.last the last call.

NoCall == [kind |-> "none", root |-> 0, order |-> <<>>, again |-> FALSE]

TopoInit ==
    /\ impl = "topo"
    /\ pc = "build"
    /\ heap = <<>>
    /\ loss = 0 /\ params = <<>> /\ topo = <<>>
    /\ non_params = <<>> /\ reverse_topo = <<>>
    /\ idx = 0 /\ nback = 0 /\ fromZero = FALSE /\ db = <<>>
    /\ run = [calls |-> 0, taken |-> {}, reached |-> {}, last |-> NoCall]

TopoBuilding == impl = "topo" /\ pc = "build" /\ Len(heap) < MaxNodes
\* the call that has just returned
Called(kind, r, order) ==
    [run EXCEPT !.calls = @ + 1,
                !.taken = @ \cup {r},
                !.reached = @ \cup Range(order),
                !.last = [kind |-> kind, root |-> r, order |-> order,
                          again |-> r \in run.taken]]

\* the value a leaf is given here: the order does not depend on it
TopoLeafVals == {R(2)}
\* Value() with its data written
TopoNewValue ==
    /\ TopoBuilding
    /\ \E v \in TopoLeafVals : heap' = [NewValue(heap) EXCEPT ![Len(heap) + 1].data = v]
    /\ UNCHANGED <<GraphVars, pc, run>>
\* Const(data)
TopoNewConst ==
    /\ TopoBuilding
    /\ \E c \in ConstVals : heap' = NewConst(heap, c)
    /\ UNCHANGED <<GraphVars, pc, run>>
\* a UnaryValue: relu (pow, log and exp inherit the same _build_topo_recurse)
TopoNewUnary ==
    /\ TopoBuilding
    /\ \E i \in Nodes : heap' = relu(heap, i)
    /\ UNCHANGED <<GraphVars, pc, run>>
\* a BinaryValue: add, mul (Max inherits the same _build_topo_recurse)
TopoNewBinary ==
    /\ TopoBuilding
    /\ \E i, j \in Nodes :
          \/ heap' = add(heap, i, j)
          \/ heap' = mul(heap, i, j)
    /\ UNCHANGED <<GraphVars, pc, run>>
\* lines 56-60: r.topo()
TopoCall ==
    /\ impl = "topo" /\ pc = "build" /\ run.calls < MaxCalls
    /\ \E r \in Nodes :
          LET st == Topo(heap, r)
          IN  /\ heap' = st.heap
              /\ run' = Called("topo", r, st.topo)
    /\ UNCHANGED <<GraphVars, pc>>
\* lines 73-78: r.backward()
BaseBackward ==
    /\ impl = "topo" /\ pc = "build" /\ run.calls < MaxCalls
    /\ \E r \in Nodes :
          LET st == Topo(heap, r)
          IN  /\ heap' = BackwardSweep([st.heap EXCEPT ![r].grad = R(1)],
                                       Reverse(st.topo))
              /\ run' = Called("backward", r, st.topo)
    /\ UNCHANGED <<GraphVars, pc>>

TopoNext ==
    \/ TopoNewValue \/ TopoNewConst \/ TopoNewUnary \/ TopoNewBinary
    \/ TopoCall \/ BaseBackward

TopoSpec == TopoInit /\ [][TopoNext]_vars

\* C11: no operation clears a _visited marker; a topo() call on a root that
\* topo() has run on before returns the empty sequence, a call on any node
\* returns no node that an earlier call returned, and a backward() on a root
\* whose order has been taken sets the root's grad to 1 and changes nothing
\* else, no backward rule being applied.
C11_VisitedStaysSetLaterTopoIsEmpty ==
    [][/\ \A n \in Nodes : heap[n].visited => heap'[n].visited
       /\ run'.calls > run.calls =>
            LET r == run'.last.root
                order == run'.last.order
            IN  /\ r \in run.taken => order = <<>>
                /\ Range(order) \cap run.reached = {}
                /\ (run'.last.kind = "backward" /\ r \in run.taken) =>
                      heap' = [heap EXCEPT ![r].grad = R(1)]]_vars

\* backward() has run on a sum whose order topo() had taken: the sum's grad is
\* 1 and its operands got nothing
C11_Witness ==
    /\ impl = "topo"
    /\ run.last.kind = "backward" /\ run.last.again
    /\ run.last.order = <<>>
    /\ heap[run.last.root].cls = "AddValue"
    /\ heap[run.last.root].visited
    /\ heap[run.last.root].grad = R(1)
    /\ \A m \in Range(Links(heap, run.last.root)) : heap[m].grad = R(0)

====
